---- MODULE Spec2Model ----
(***************************************************************************)
(* A model of pycardano's TransactionBuilder (src/pycardano/txbuilder.py): *)
(* the builder's state, its mutators, and build() with its deficit         *)
(* computation, selector fallback loop, input sort, fee and change.        *)
(***************************************************************************)
EXTENDS Integers, Sequences, FiniteSets, TLC

VARIABLES
    inputs,               \* self._inputs: sequence of UTxO
    input_addresses,      \* self._input_addresses: sequence of Address
    outputs,              \* self._outputs: sequence of TransactionOutput
    fee,                  \* self._fee
    ttl,                  \* self._ttl (None is <<>>, a value v is <<v>>)
    validity_start,       \* self._validity_start (same encoding)
    utxo_selectors,       \* self.utxo_selectors
    pc,                   \* position inside build(): "idle", "select", "finish"
    change_address,       \* build()'s argument (None is <<>>)
    selected_utxos,       \* build()'s local list
    selected_amount,      \* build()'s local Value
    unfulfilled_amount,   \* build()'s local Value
    additional_utxo_pool, \* build()'s local list
    sel_i,                \* the loop index i of build()'s selector loop (1-based)
    ret,                  \* what the last call returned or raised
    pre,                  \* the builder's fields when the last build() was called
    queries,              \* context.utxos() calls made by the last build()
    attempts,             \* selector.select() calls made by the last build()
    ncalls,               \* number of calls made on the builder so far
    streak                \* the build() calls that returned a body since the
                          \* last other call, and the outputs before them

vars == <<inputs, input_addresses, outputs, fee, ttl, validity_start,
          utxo_selectors, pc, change_address, selected_utxos, selected_amount,
          unfulfilled_amount, additional_utxo_pool, sel_i, ret, pre, queries,
          attempts, ncalls, streak>>

(***************************************************************************)
(* Bounds of the model.                                                    *)
(***************************************************************************)
\* the number of calls made on the builder
MaxCalls == 4

None == <<>>
Some(x) == <<x>>

(***************************************************************************)
(* Ledger values: Asset, MultiAsset and Value of pycardano.transaction.    *)
(* A MultiAsset is a map policy -> (asset name -> quantity); entries       *)
(* persist with quantity 0 or below until they are filtered.               *)
(***************************************************************************)
EmptyMap == [x \in {} |-> 0]

AssetAdd(a, b) ==
    [n \in (DOMAIN a) \cup (DOMAIN b) |->
        (IF n \in DOMAIN a THEN a[n] ELSE 0) + (IF n \in DOMAIN b THEN b[n] ELSE 0)]

AssetSub(a, b) ==
    [n \in (DOMAIN a) \cup (DOMAIN b) |->
        (IF n \in DOMAIN a THEN a[n] ELSE 0) - (IF n \in DOMAIN b THEN b[n] ELSE 0)]

MultiAssetAdd(a, b) ==
    [p \in (DOMAIN a) \cup (DOMAIN b) |->
        AssetAdd(IF p \in DOMAIN a THEN a[p] ELSE EmptyMap,
                 IF p \in DOMAIN b THEN b[p] ELSE EmptyMap)]

MultiAssetSub(a, b) ==
    [p \in (DOMAIN a) \cup (DOMAIN b) |->
        AssetSub(IF p \in DOMAIN a THEN a[p] ELSE EmptyMap,
                 IF p \in DOMAIN b THEN b[p] ELSE EmptyMap)]

Value(coin, multi_asset) == [coin |-> coin, multi_asset |-> multi_asset]

ZeroValue == Value(0, EmptyMap)

ValueAdd(a, b) == Value(a.coin + b.coin, MultiAssetAdd(a.multi_asset, b.multi_asset))

ValueSub(a, b) == Value(a.coin - b.coin, MultiAssetSub(a.multi_asset, b.multi_asset))

\* a <= b: the coin and every asset entry of a is matched in b
ValueLe(a, b) ==
    /\ a.coin <= b.coin
    /\ \A p \in DOMAIN a.multi_asset : \A n \in DOMAIN a.multi_asset[p] :
          /\ p \in DOMAIN b.multi_asset
          /\ n \in DOMAIN b.multi_asset[p]
          /\ a.multi_asset[p][n] <= b.multi_asset[p][n]

\* a < b
ValueLt(a, b) == ValueLe(a, b) /\ a # b

\* the quantity of asset (p, n) in a MultiAsset, absent entries counting as 0
Quantity(m, p, n) ==
    IF p \in DOMAIN m /\ n \in DOMAIN m[p] THEN m[p][n] ELSE 0

(***************************************************************************)
(* An output amount is an int or a Value; Amount keeps which one it is.    *)
(***************************************************************************)
IntAmount(c) == [kind |-> "int", coin |-> c, multi_asset |-> EmptyMap]

ValueAmount(v) == [kind |-> "Value", coin |-> v.coin, multi_asset |-> v.multi_asset]

\* Value.__add__ turns an int operand into Value(int)
AsValue(amount) == Value(amount.coin, amount.multi_asset)

TransactionOutput(address, amount) == [address |-> address, amount |-> amount]

(***************************************************************************)
(* The data the calls are made with: addresses, UTxOs, outputs, and the    *)
(* chain context the builder was constructed with.                         *)
(***************************************************************************)
Address(kind, payment, staking) ==
    [payment_kind |-> kind, payment_part |-> payment, staking_part |-> staking]

AddrA == Address("VerificationKeyHash", "h1", "s1")
AddrA2 == Address("VerificationKeyHash", "h1", "s2")
AddrB == Address("VerificationKeyHash", "h2", "s1")
AddrS == Address("ScriptHash", "h3", "s1")
AddrX == Address("VerificationKeyHash", "h4", "s4")
AddrC == Address("VerificationKeyHash", "h5", "s5")

\* transaction ids are byte strings of one fixed length
TxId1 == <<0, 154>>
TxId2 == <<0, 16>>
TxId3 == <<1, 0>>

TransactionInput(transaction_id, index) ==
    [transaction_id |-> transaction_id, index |-> index]

UTxO(input, output) == [input |-> input, output |-> output]

Utxo1 == UTxO(TransactionInput(TxId1, 0),
              TransactionOutput(Some(AddrA), IntAmount(40)))
Utxo2 == UTxO(TransactionInput(TxId1, 1),
              TransactionOutput(Some(AddrA2),
                  ValueAmount(Value(30, ("p1" :> ("n1" :> 2))))))
Utxo3 == UTxO(TransactionInput(TxId2, 1),
              TransactionOutput(Some(AddrB),
                  ValueAmount(Value(50, ("p1" :> (("n1" :> 1) @@ ("n2" :> 3)))))))
Utxo4 == UTxO(TransactionInput(TxId3, 0),
              TransactionOutput(Some(AddrS),
                  ValueAmount(Value(25, ("p2" :> ("n1" :> 1))))))
Utxo5 == UTxO(TransactionInput(TxId2, 0),
              TransactionOutput(Some(AddrB), IntAmount(10)))

Policies == {"p1", "p2"}
AssetNames == {"n1", "n2"}

\* the arguments the caller passes
InputChoices == {Utxo1, Utxo2, Utxo3, Utxo4}
InputAddressChoices == {AddrA, AddrB}
OutputChoices ==
    { TransactionOutput(Some(AddrX), IntAmount(20)),
      TransactionOutput(Some(AddrX), ValueAmount(Value(10, ("p1" :> ("n1" :> 2))))),
      TransactionOutput(Some(AddrX), ValueAmount(Value(60, ("p1" :> ("n2" :> 1))))),
      TransactionOutput(Some(AddrX),
          ValueAmount(Value(10, ("p1" :> (("n1" :> 2) @@ ("n2" :> 1)))))) }
ChangeAddressChoices == {None, Some(AddrC)}
FeeChoices == {7}
TtlChoices == {7}
DeltaChoices == {25}
ValidityStartChoices == {3}
SelectorChoices ==
    { <<>>, <<"LargestFirstSelector", "RandomImproveMultiAsset", "CustomSelector">> }

\* str(address): the text form of an address, one text per address
AddressStr(a) == <<a.payment_kind, a.payment_part, a.staking_part>>

\* the chain context: its UTxO set in the order it lists it, its slot, its
\* genesis and protocol parameters
Context ==
    [ utxo_set |-> <<Utxo1, Utxo2, Utxo3, Utxo5, Utxo4>>,
      slot |-> 5,
      genesis_param |-> [slot_length |-> 10],
      protocol_param |-> [min_fee_constant |-> 2, min_fee_coefficient |-> 1,
                          max_tx_size |-> 8] ]

RECURSIVE FilterByAddress(_, _)
FilterByAddress(s, text) ==
    IF s = <<>> THEN <<>>
    ELSE IF AddressStr(Head(s).output.address[1]) = text
         THEN <<Head(s)>> \o FilterByAddress(Tail(s), text)
         ELSE FilterByAddress(Tail(s), text)

\* context.utxos(address)
ContextUtxos(text) == FilterByAddress(Context.utxo_set, text)

\* pycardano.utils.fee(context, length)
FeeForSize(length) ==
    length * Context.protocol_param.min_fee_coefficient
        + Context.protocol_param.min_fee_constant

\* pycardano.utils.max_tx_fee(context)
max_tx_fee == FeeForSize(Context.protocol_param.max_tx_size)

(***************************************************************************)
(* Helpers of build(): sums, the trimmed amount, the deficit, the pool,    *)
(* and the sort of the selected UTxOs.                                     *)
(***************************************************************************)
\* for i in ...: amount += i.output.amount, starting from Value()
RECURSIVE SumUtxos(_)
SumUtxos(s) ==
    IF s = <<>> THEN ZeroValue
    ELSE ValueAdd(SumUtxos(SubSeq(s, 1, Len(s) - 1)), AsValue(s[Len(s)].output.amount))

\* for o in self.outputs: amount += o.amount, starting from Value()
RECURSIVE SumOutputs(_)
SumOutputs(s) ==
    IF s = <<>> THEN ZeroValue
    ELSE ValueAdd(SumOutputs(SubSeq(s, 1, Len(s) - 1)), AsValue(s[Len(s)].amount))

\* multi_asset.filter(lambda p, n, v: p in requested and n in requested[p]);
\* a policy left with no asset is not in the result
FilterRequested(m, requested) ==
    LET keep(p) == {n \in DOMAIN m[p] :
                        p \in DOMAIN requested /\ n \in DOMAIN requested[p]}
    IN  [p \in {q \in DOMAIN m : keep(q) # {}} |-> [n \in keep(p) |-> m[p][n]]]

\* multi_asset.filter(lambda p, n, v: v >= 0)
FilterNonNegative(m) ==
    LET keep(p) == {n \in DOMAIN m[p] : m[p][n] >= 0}
    IN  [p \in {q \in DOMAIN m : keep(q) # {}} |-> [n \in keep(p) |-> m[p][n]]]

\* multi_asset.filter(lambda p, n, v: v > 0)
FilterPositive(m) ==
    LET keep(p) == {n \in DOMAIN m[p] : m[p][n] > 0}
    IN  [p \in {q \in DOMAIN m : keep(q) # {}} |-> [n \in keep(p) |-> m[p][n]]]

TrimmedSelectedKeepingAll(selected, requested) == selected

TrimmedSelected(selected, requested) ==
    Value(selected.coin, FilterRequested(selected.multi_asset, requested.multi_asset))

Max(a, b) == IF a >= b THEN a ELSE b

Unfulfilled(requested, trimmed) ==
    LET d == ValueSub(requested, trimmed)
    IN  Value(Max(0, d.coin), d.multi_asset)

HasDeficitInBaseUnit(unfulfilled) == unfulfilled.coin > 0

HasDeficitOnFirstBuild(unfulfilled) ==
    streak.builds = <<>> /\ ValueLt(ZeroValue, unfulfilled)

\* if Value() < unfulfilled_amount
HasDeficit(unfulfilled) == ValueLt(ZeroValue, unfulfilled)

\* utxo not in selected_utxos
NotIn(u, s) == \A k \in 1..Len(s) : s[k] # u

KeepAll(s, selected) == s

RECURSIVE KeepNotIn(_, _)
KeepNotIn(s, selected) ==
    IF s = <<>> THEN <<>>
    ELSE IF NotIn(Head(s), selected)
         THEN <<Head(s)>> \o KeepNotIn(Tail(s), selected)
         ELSE KeepNotIn(Tail(s), selected)

AdditionalUtxoPoolFirstAddress(addresses, selected) ==
    IF addresses = <<>> THEN <<>>
    ELSE KeepNotIn(ContextUtxos(AddressStr(Head(addresses))), selected)

RECURSIVE AdditionalUtxoPool(_, _)
AdditionalUtxoPool(addresses, selected) ==
    IF addresses = <<>> THEN <<>>
    ELSE KeepNotIn(ContextUtxos(AddressStr(Head(addresses))), selected)
            \o AdditionalUtxoPool(Tail(addresses), selected)

\* the context.utxos() calls of one pool construction, in order
QueriesOf(addresses) == [k \in 1..Len(addresses) |-> AddressStr(addresses[k])]

\* str(transaction_id): two lowercase hex digits per byte, as character codes
HexDigit(d) == IF d < 10 THEN 48 + d ELSE 87 + d

RECURSIVE TransactionIdStr(_)
TransactionIdStr(id) ==
    IF id = <<>> THEN <<>>
    ELSE <<HexDigit(Head(id) \div 16), HexDigit(Head(id) % 16)>>
            \o TransactionIdStr(Tail(id))

\* Python's order on str
RECURSIVE StrLess(_, _)
StrLess(a, b) ==
    IF b = <<>> THEN FALSE
    ELSE IF a = <<>> THEN TRUE
    ELSE IF Head(a) # Head(b) THEN Head(a) < Head(b)
    ELSE StrLess(Tail(a), Tail(b))

SortKeyIndexOnly(utxo) == <<<<>>, utxo.input.index>>

\* key=lambda utxo: (str(utxo.input.transaction_id), utxo.input.index)
SortKey(utxo) == <<TransactionIdStr(utxo.input.transaction_id), utxo.input.index>>

\* Python's order on (str, int) tuples
KeyLess(k1, k2) == StrLess(k1[1], k2[1]) \/ (k1[1] = k2[1] /\ k1[2] < k2[2])

\* x goes before the first element whose key is not below x's
RECURSIVE InsertByKey(_, _)
InsertByKey(x, s) ==
    IF s = <<>> THEN <<x>>
    ELSE IF KeyLess(SortKey(Head(s)), SortKey(x))
         THEN <<Head(s)>> \o InsertByKey(x, Tail(s))
         ELSE <<x>> \o s

SortUtxosKeepingOrder(s) == s

\* list.sort(key=...): stable
RECURSIVE SortUtxos(_)
SortUtxos(s) ==
    IF s = <<>> THEN <<>> ELSE InsertByKey(Head(s), SortUtxos(Tail(s)))

(***************************************************************************)
(* _add_change_and_fee, the fake witnesses and the transaction body.       *)
(***************************************************************************)
RequestedNoFee(f, outs) == SumOutputs(outs)

\* requested = Value(self.fee); for o in self.outputs: requested += o.amount
RequestedWithFee(f, outs) == ValueAdd(Value(f, EmptyMap), SumOutputs(outs))

\* the amount of the change output for these inputs, outputs and fee
ChangeAmount(inps, outs, f) ==
    LET change == ValueSub(SumUtxos(inps), RequestedWithFee(f, outs))
        filtered == IF change.multi_asset # EmptyMap
                    THEN Value(change.coin, FilterPositive(change.multi_asset))
                    ELSE change
    IN  IF filtered.multi_asset = EmptyMap
        THEN IntAmount(filtered.coin)
        ELSE ValueAmount(filtered)

input_vkey_hashes_per_address(inps) ==
    {inps[k].output.address[1] :
        k \in {j \in 1..Len(inps) :
                 inps[j].output.address[1].payment_kind = "VerificationKeyHash"}}

\* the set of payment parts that are verification key hashes
input_vkey_hashes(inps) ==
    {inps[k].output.address[1].payment_part :
        k \in {j \in 1..Len(inps) :
                 inps[j].output.address[1].payment_kind = "VerificationKeyHash"}}

FakeWitness == [vkey |-> "FAKE_VKEY", signature |-> "FAKE_TX_SIGNATURE"]

\* one VerificationKeyWitness(FAKE_VKEY, FAKE_TX_SIGNATURE) per hash
build_fake_vkey_witnesses(inps) ==
    [k \in 1..Cardinality(input_vkey_hashes(inps)) |-> FakeWitness]

build_fake_witness_set(inps) == [vkey_witnesses |-> build_fake_vkey_witnesses(inps)]

build_tx_body(inps, outs, f, t, v) ==
    [ kind |-> "TransactionBody",
      inputs |-> [k \in 1..Len(inps) |-> inps[k].input],
      outputs |-> outs,
      fee |-> f,
      ttl |-> t,
      validity_start |-> v ]

build_full_fake_tx(inps, outs, f, t, v) ==
    [ kind |-> "Transaction",
      transaction_body |-> build_tx_body(inps, outs, f, t, v),
      transaction_witness_set |-> build_fake_witness_set(inps),
      valid |-> TRUE ]

\* the encoded size of a transaction, in units: one per input, output and witness
TxSize(tx) ==
    Len(tx.transaction_body.inputs) + Len(tx.transaction_body.outputs)
        + Len(tx.transaction_witness_set.vkey_witnesses)

\* the Fee Estimator: the fee for the size of the placeholder transaction
EstimateFee(tx) == FeeForSize(TxSize(tx))

\* __init__: the selectors given, or the two default ones
InitSelectorsNoDefault(given) == given

InitSelectors(given) ==
    IF given # <<>> THEN given
    ELSE <<"RandomImproveMultiAsset", "LargestFirstSelector">>

(***************************************************************************)
(* The contract of a selector: select() returns entries of the pool that   *)
(* cover the request, or raises UTxOSelectionException.                    *)
(***************************************************************************)
\* the ways to pick entries of a pool of n entries, each at most once, in any order
PickOrders(n) ==
    UNION { {f \in [1..k -> 1..n] : \A a, b \in 1..k : a # b => f[a] # f[b]}
            : k \in 0..n }

Picked(pool, f) == [k \in 1..Len(f) |-> pool[f[k]]]

Covers(selected, request) ==
    LET got == SumUtxos(selected)
    IN  /\ got.coin >= request.coin
        /\ \A p \in DOMAIN request.multi_asset :
              \A n \in DOMAIN request.multi_asset[p] :
                 Quantity(got.multi_asset, p, n) >= request.multi_asset[p][n]

ReplaceSelected(selected_utxos_, selected) == selected

\* for s in selected: selected_utxos.append(s)
ExtendSelected(selected_utxos_, selected) == selected_utxos_ \o selected

(***************************************************************************)
(* The state machine.                                                      *)
(***************************************************************************)
Returned(kind) == [kind |-> kind]

\* the fields of the builder, as a record
Builder ==
    [ inputs |-> inputs, input_addresses |-> input_addresses, outputs |-> outputs,
      fee |-> fee, ttl |-> ttl, validity_start |-> validity_start ]

\* build()'s locals outside a call
NoLocals ==
    /\ change_address' = None
    /\ selected_utxos' = <<>>
    /\ selected_amount' = ZeroValue
    /\ unfulfilled_amount' = ZeroValue
    /\ additional_utxo_pool' = <<>>
    /\ sel_i' = 0

\* no build() has returned since the last other call
NoStreak == [outputs0 |-> <<>>, builds |-> <<>>]

\* a call other than build(): what is remembered of the last build() is dropped
OtherCall ==
    /\ pc = "idle"
    /\ ncalls < MaxCalls
    /\ ncalls' = ncalls + 1
    /\ pre' = None
    /\ queries' = <<>>
    /\ attempts' = <<>>
    /\ streak' = NoStreak
    /\ UNCHANGED <<utxo_selectors, pc, change_address, selected_utxos,
                   selected_amount, unfulfilled_amount, additional_utxo_pool,
                   sel_i>>

Init ==
    /\ inputs = <<>>
    /\ input_addresses = <<>>
    /\ outputs = <<>>
    /\ fee = 0
    /\ ttl = None
    /\ validity_start = None
    /\ utxo_selectors \in {InitSelectors(given) : given \in SelectorChoices}
    /\ pc = "idle"
    /\ change_address = None
    /\ selected_utxos = <<>>
    /\ selected_amount = ZeroValue
    /\ unfulfilled_amount = ZeroValue
    /\ additional_utxo_pool = <<>>
    /\ sel_i = 0
    /\ ret = Returned("none")
    /\ pre = None
    /\ queries = <<>>
    /\ attempts = <<>>
    /\ ncalls = 0
    /\ streak = NoStreak

add_input(utxo) ==
    /\ OtherCall
    /\ inputs' = Append(inputs, utxo)
    /\ ret' = Returned("self")
    /\ UNCHANGED <<input_addresses, outputs, fee, ttl, validity_start>>

add_input_address(address) ==
    /\ OtherCall
    /\ input_addresses' = Append(input_addresses, address)
    /\ ret' = Returned("self")
    /\ UNCHANGED <<inputs, outputs, fee, ttl, validity_start>>

add_output(tx_out) ==
    /\ OtherCall
    /\ outputs' = Append(outputs, tx_out)
    /\ ret' = Returned("self")
    /\ UNCHANGED <<inputs, input_addresses, fee, ttl, validity_start>>

set_fee(f) ==
    /\ OtherCall
    /\ fee' = f
    /\ ret' = Returned("None")
    /\ UNCHANGED <<inputs, input_addresses, outputs, ttl, validity_start>>

set_ttl(t) ==
    /\ OtherCall
    /\ ttl' = Some(t)
    /\ ret' = Returned("None")
    /\ UNCHANGED <<inputs, input_addresses, outputs, fee, validity_start>>

set_ttl_by_delta(delta) ==
    /\ OtherCall
    /\ LET delta_slots == delta \div Context.genesis_param.slot_length
       IN  ttl' = Some(Context.slot + delta_slots)
    /\ ret' = Returned("self")
    /\ UNCHANGED <<inputs, input_addresses, outputs, fee, validity_start>>

set_validity_start(v) ==
    /\ OtherCall
    /\ validity_start' = Some(v)
    /\ ret' = Returned("None")
    /\ UNCHANGED <<inputs, input_addresses, outputs, fee, ttl>>

\* build(), lines 166-192: the locals, the deficit and, with a deficit, the pool;
\* the selector loop is entered when there is a selector to try
BuildBegin(address) ==
    /\ pc = "idle"
    /\ ncalls < MaxCalls
    /\ ncalls' = ncalls + 1
    /\ pre' = Some([builder |-> Builder, change_address |-> address])
    /\ change_address' = address
    /\ selected_utxos' = inputs
    /\ selected_amount' = SumUtxos(inputs)
    /\ LET requested_amount == SumOutputs(outputs)
           trimmed_selected_amount ==
               TrimmedSelected(SumUtxos(inputs), requested_amount)
       IN  unfulfilled_amount' = Unfulfilled(requested_amount, trimmed_selected_amount)
    /\ attempts' = <<>>
    /\ streak' = IF streak.builds = <<>>
                 THEN [outputs0 |-> outputs, builds |-> <<>>]
                 ELSE streak
    /\ ret' = Returned("running")
    /\ IF HasDeficit(unfulfilled_amount')
       THEN /\ additional_utxo_pool' = AdditionalUtxoPool(input_addresses, inputs)
            /\ queries' = QueriesOf(input_addresses)
            /\ sel_i' = 1
            /\ pc' = IF utxo_selectors # <<>> THEN "select" ELSE "finish"
       ELSE /\ additional_utxo_pool' = <<>>
            /\ queries' = <<>>
            /\ sel_i' = 0
            /\ pc' = "finish"
    /\ UNCHANGED <<inputs, input_addresses, outputs, fee, ttl, validity_start,
                   utxo_selectors>>

\* one selector.select() call of the loop, as it is recorded
Attempt(ok, selected) ==
    [ selector |-> utxo_selectors[sel_i],
      pool |-> additional_utxo_pool,
      request |-> <<TransactionOutput(None, ValueAmount(unfulfilled_amount))>>,
      ok |-> ok,
      selected |-> selected ]

SelectorSucceedsNoBreak ==
    /\ pc = "select"
    /\ \E f \in PickOrders(Len(additional_utxo_pool)) :
          LET selected == Picked(additional_utxo_pool, f)
          IN  /\ Covers(selected, unfulfilled_amount)
              /\ selected_amount' = ValueAdd(selected_amount, SumUtxos(selected))
              /\ selected_utxos' = ExtendSelected(selected_utxos, selected)
              /\ attempts' = Append(attempts, Attempt(TRUE, selected))
    /\ IF sel_i < Len(utxo_selectors)
       THEN sel_i' = sel_i + 1 /\ pc' = "select"
       ELSE sel_i' = sel_i /\ pc' = "finish"
    /\ UNCHANGED <<inputs, input_addresses, outputs, fee, ttl, validity_start,
                   utxo_selectors, change_address, unfulfilled_amount,
                   additional_utxo_pool, ret, pre, queries, ncalls, streak>>

\* lines 194-201: the selector at position sel_i returns a selection
SelectorSucceeds ==
    /\ pc = "select"
    /\ \E f \in PickOrders(Len(additional_utxo_pool)) :
          LET selected == Picked(additional_utxo_pool, f)
          IN  /\ Covers(selected, unfulfilled_amount)
              /\ selected_amount' = ValueAdd(selected_amount, SumUtxos(selected))
              /\ selected_utxos' = ExtendSelected(selected_utxos, selected)
              /\ attempts' = Append(attempts, Attempt(TRUE, selected))
    /\ pc' = "finish"
    /\ UNCHANGED <<inputs, input_addresses, outputs, fee, ttl, validity_start,
                   utxo_selectors, change_address, unfulfilled_amount,
                   additional_utxo_pool, sel_i, ret, pre, queries, ncalls,
                   streak>>

\* lines 203-206: the selector raises and another one is left
SelectorFailsTryNext ==
    /\ pc = "select"
    /\ sel_i < Len(utxo_selectors)
    /\ attempts' = Append(attempts, Attempt(FALSE, <<>>))
    /\ sel_i' = sel_i + 1
    /\ UNCHANGED <<inputs, input_addresses, outputs, fee, ttl, validity_start,
                   utxo_selectors, pc, change_address, selected_utxos,
                   selected_amount, unfulfilled_amount, additional_utxo_pool,
                   ret, pre, queries, ncalls, streak>>

SelectorFailsRaiseCommitting ==
    /\ pc = "select"
    /\ ~(sel_i < Len(utxo_selectors))
    /\ attempts' = Append(attempts, Attempt(FALSE, <<>>))
    /\ ret' = [kind |-> "UTxOSelectionException",
               message |-> "All UTxO selectors failed."]
    /\ pc' = "idle"
    /\ NoLocals
    /\ streak' = streak
    /\ inputs' = SortUtxos(selected_utxos)
    /\ UNCHANGED <<input_addresses, outputs, fee, ttl, validity_start,
                   utxo_selectors, pre, queries, ncalls>>

\* lines 203-208: the last selector raises, and so does build()
SelectorFailsRaise ==
    /\ pc = "select"
    /\ ~(sel_i < Len(utxo_selectors))
    /\ attempts' = Append(attempts, Attempt(FALSE, <<>>))
    /\ ret' = [kind |-> "UTxOSelectionException",
               message |-> "All UTxO selectors failed."]
    /\ pc' = "idle"
    /\ NoLocals
    /\ streak' = streak
    /\ UNCHANGED <<inputs, input_addresses, outputs, fee, ttl, validity_start,
                   utxo_selectors, pre, queries, ncalls>>

\* what is remembered of a build() that returns a body
BuildRecord ==
    [ change_address |-> change_address, queries |-> queries,
      invoked |-> Len(attempts) ]

BuildFinishReplacingChange ==
    /\ pc = "finish"
    /\ inputs' = SortUtxos(selected_utxos)
    /\ fee' = max_tx_fee
    /\ LET kept == IF streak.builds # <<>>
                   THEN SubSeq(outputs, 1, Len(outputs) - 1)
                   ELSE outputs
       IN  outputs' = Append(kept,
                        TransactionOutput(change_address,
                                          ChangeAmount(inputs', kept, fee')))
    /\ ret' = build_tx_body(inputs', outputs', fee', ttl, validity_start)
    /\ pc' = "idle"
    /\ NoLocals
    /\ streak' = [streak EXCEPT !.builds = Append(@, BuildRecord)]
    /\ UNCHANGED <<input_addresses, ttl, validity_start, utxo_selectors, pre,
                   queries, attempts, ncalls>>

BuildFinishKeepingFee ==
    /\ pc = "finish"
    /\ inputs' = SortUtxos(selected_utxos)
    /\ fee' = IF fee # 0 THEN fee ELSE max_tx_fee
    /\ outputs' = Append(outputs,
                     TransactionOutput(change_address,
                                       ChangeAmount(inputs', outputs, fee')))
    /\ ret' = build_tx_body(inputs', outputs', fee', ttl, validity_start)
    /\ pc' = "idle"
    /\ NoLocals
    /\ streak' = [streak EXCEPT !.builds = Append(@, BuildRecord)]
    /\ UNCHANGED <<input_addresses, ttl, validity_start, utxo_selectors, pre,
                   queries, attempts, ncalls>>

\* lines 210-218: the sort, the commit, the fee and the change, the body
BuildFinish ==
    /\ pc = "finish"
    /\ inputs' = SortUtxos(selected_utxos)
    /\ fee' = max_tx_fee
    /\ outputs' = Append(outputs,
                     TransactionOutput(change_address,
                                       ChangeAmount(inputs', outputs, fee')))
    /\ ret' = build_tx_body(inputs', outputs', fee', ttl, validity_start)
    /\ pc' = "idle"
    /\ NoLocals
    /\ streak' = [streak EXCEPT !.builds = Append(@, BuildRecord)]
    /\ UNCHANGED <<input_addresses, ttl, validity_start, utxo_selectors, pre,
                   queries, attempts, ncalls>>

\* _build_full_fake_tx()
BuildFullFakeTx ==
    /\ OtherCall
    /\ ret' = build_full_fake_tx(inputs, outputs, fee, ttl, validity_start)
    /\ UNCHANGED <<inputs, input_addresses, outputs, fee, ttl, validity_start>>

Next ==
    \/ \E utxo \in InputChoices : add_input(utxo)
    \/ \E address \in InputAddressChoices : add_input_address(address)
    \/ \E tx_out \in OutputChoices : add_output(tx_out)
    \/ \E f \in FeeChoices : set_fee(f)
    \/ \E t \in TtlChoices : set_ttl(t)
    \/ \E delta \in DeltaChoices : set_ttl_by_delta(delta)
    \/ \E v \in ValidityStartChoices : set_validity_start(v)
    \/ \E address \in ChangeAddressChoices : BuildBegin(address)
    \/ SelectorSucceeds
    \/ SelectorFailsTryNext
    \/ SelectorFailsRaise
    \/ BuildFinish
    \/ BuildFullFakeTx

Spec == Init /\ [][Next]_vars

(***************************************************************************)
(* What the claims speak of.                                               *)
(***************************************************************************)
\* the last call was build() and it returned a body
BuildReturned == ret.kind = "TransactionBody"

\* the last call was build() and it raised "All UTxO selectors failed."
BuildRaised == ret.kind = "UTxOSelectionException"

\* the last call was build(changeAddress), with an address, and it returned a body
BuildWithChangeReturned == BuildReturned /\ pre[1].change_address # None

\* the builder's fields when the last build() was called
Before == pre[1].builder

\* the deficit the last build() computed from the builder's fields
DeficitBefore ==
    LET requested == SumOutputs(Before.outputs)
    IN  Unfulfilled(requested, TrimmedSelected(SumUtxos(Before.inputs), requested))

Last(s) == s[Len(s)]

\* how many times x occurs in the sequence s
Count(s, x) == Cardinality({k \in 1..Len(s) : s[k] = x})

AllUtxos == {Context.utxo_set[k] : k \in 1..Len(Context.utxo_set)}

\* C1: after a build(changeAddress) that returned a body, the values of the
\* builder's inputs sum to the values of all outputs (the change output
\* included) plus the fee, in the base unit and in every asset.
C1_BalanceLaw ==
    BuildWithChangeReturned =>
        LET provided == SumUtxos(inputs)
            spent == SumOutputs(ret.outputs)
        IN  /\ provided.coin = spent.coin + ret.fee
            /\ \A p \in Policies : \A n \in AssetNames :
                  Quantity(provided.multi_asset, p, n)
                      = Quantity(spent.multi_asset, p, n)

\* a build(changeAddress) that selected UTxOs and returned change with assets
C1_Witness ==
    /\ BuildWithChangeReturned
    /\ \E k \in 1..Len(attempts) : attempts[k].ok /\ attempts[k].selected # <<>>
    /\ Last(ret.outputs).amount.kind = "Value"

\* the distinct UTxOs the build could draw on: the explicit inputs and those at
\* the registered input addresses
AvailableBefore ==
    {u \in AllUtxos :
        \/ \E k \in 1..Len(Before.inputs) : Before.inputs[k] = u
        \/ \E k \in 1..Len(Before.input_addresses) :
              AddressStr(u.output.address[1]) = AddressStr(Before.input_addresses[k])}

RECURSIVE SumSet(_)
SumSet(S) ==
    IF S = {} THEN ZeroValue
    ELSE LET u == CHOOSE x \in S : TRUE
         IN  ValueAdd(SumSet(S \ {u}), AsValue(u.output.amount))

\* C2: when build returns a body and the explicit inputs together with the
\* UTxOs at the registered addresses hold at least the outputs plus the fee,
\* the final inputs' base amount is at least the caller outputs' plus the fee.
C2_EnoughSelected ==
    (/\ BuildReturned
     /\ Covers(<<>>, ValueSub(RequestedWithFee(ret.fee, Before.outputs),
                              SumSet(AvailableBefore))))
        => SumUtxos(inputs).coin >= SumOutputs(Before.outputs).coin + ret.fee

\* C3: the fee of the returned body is the Fee Estimator's fee for the draft
\* transaction of the final inputs, the outputs before change, and one
\* placeholder witness per distinct signer.
C3_FeeIsEstimate ==
    BuildReturned =>
        ret.fee = EstimateFee(build_full_fake_tx(inputs, Before.outputs, Before.fee,
                                                 Before.ttl, Before.validity_start))

\* the explicit inputs hold the outputs plus the fee: the base unit and every
\* requested asset
ExplicitInputsCover ==
    Covers(Before.inputs, RequestedWithFee(max_tx_fee, Before.outputs))

\* C4: in a build whose explicit inputs already cover all outputs and the fee,
\* no context.utxos() query is made and no selector is invoked.
C4_SufficiencySkip ==
    (pre # None /\ ExplicitInputsCover) => (queries = <<>> /\ attempts = <<>>)

\* in the last build() a selector failed and a later one returned a selection
FallbackHappened ==
    /\ Len(attempts) >= 2
    /\ Last(attempts).ok
    /\ \E k \in 1..(Len(attempts) - 1) : ~attempts[k].ok

\* C5: a selector's failure with another selector left does not abort the
\* build, and when a later selector then succeeds build returns a body whose
\* inputs are exactly the explicit inputs plus what that selector selected.
C5_FallbackOrder ==
    /\ [](FallbackHappened =>
            /\ ~BuildRaised
            /\ pc = "idle" =>
                  /\ BuildReturned
                  /\ Len(ret.inputs) = Len(inputs)
                  /\ \A u \in AllUtxos :
                        Count(inputs, u)
                            = Count(Before.inputs, u) + Count(Last(attempts).selected, u))
    /\ [][(/\ pc = "select"
           /\ Len(attempts') = Len(attempts) + 1
           /\ ~Last(attempts').ok
           /\ Len(attempts') < Len(utxo_selectors))
              => (pc' = "select" /\ sel_i' = sel_i + 1 /\ ret' = ret)]_vars

\* a build with an explicit input where the first selector failed and the
\* second one selected something
C5_Witness ==
    /\ FallbackHappened
    /\ BuildReturned
    /\ Before.inputs # <<>>
    /\ Last(attempts).selected # <<>>

\* C6: a build with a deficit raises "All UTxO selectors failed." exactly when
\* every configured selector was tried and failed, and returns a body only
\* when some selector succeeded.
C6_SelectionFailedIff ==
    (pc = "idle" /\ pre # None) =>
        /\ BuildRaised <=>
              /\ HasDeficit(DeficitBefore)
              /\ Len(attempts) = Len(utxo_selectors)
              /\ \A k \in 1..Len(attempts) : ~attempts[k].ok
        /\ (BuildReturned /\ HasDeficit(DeficitBefore)) =>
              \E k \in 1..Len(attempts) : attempts[k].ok

\* a build that raised after three selectors failed
C6_Witness == BuildRaised /\ Len(attempts) >= 3

\* C7: when build() raises, the builder's inputs, input addresses, outputs,
\* fee, ttl and validity start are what they were before the call.
C7_FailedBuildLeavesState == BuildRaised => Builder = Before

\* a build that raised on a builder with inputs, outputs and a fee set
C7_Witness == BuildRaised /\ inputs # <<>> /\ outputs # <<>> /\ fee # 0

\* (transaction id, index) order on input references, ids compared byte by byte
RefLessEq(a, b) ==
    \/ StrLess(a.transaction_id, b.transaction_id)
    \/ a.transaction_id = b.transaction_id /\ a.index <= b.index

\* C8: after a build that returned a body, the builder's inputs and the body's
\* inputs are the same sequence, ascending by (transaction id, index).
C8_InputsSorted ==
    BuildReturned =>
        /\ ret.inputs = [k \in 1..Len(inputs) |-> inputs[k].input]
        /\ \A j, k \in 1..Len(ret.inputs) :
              j < k => RefLessEq(ret.inputs[j], ret.inputs[k])

\* a build whose sort changed the order of explicit inputs and selection
C8_Witness ==
    /\ BuildReturned
    /\ Before.inputs # <<>>
    /\ \E k \in 1..Len(attempts) :
          /\ attempts[k].ok
          /\ attempts[k].selected # <<>>
          /\ inputs # Before.inputs \o attempts[k].selected

\* C9: the change output of a body returned by build(changeAddress) has no
\* asset entry of quantity 0 or below and no empty policy, and with no asset
\* left its amount is a plain integer.
C9_ChangeClean ==
    BuildWithChangeReturned =>
        LET change == Last(ret.outputs).amount
        IN  /\ \A p \in DOMAIN change.multi_asset :
                  /\ DOMAIN change.multi_asset[p] # {}
                  /\ \A n \in DOMAIN change.multi_asset[p] :
                        change.multi_asset[p][n] > 0
            /\ change.kind = "Value" => change.multi_asset # EmptyMap

\* a build where an asset was spent exactly and another asset came back as change
C9_Witness ==
    /\ BuildWithChangeReturned
    /\ Last(ret.outputs).amount.kind = "Value"
    /\ LET left == ValueSub(SumUtxos(inputs), SumOutputs(Before.outputs))
       IN  \E p \in DOMAIN left.multi_asset : \E n \in DOMAIN left.multi_asset[p] :
              left.multi_asset[p][n] = 0

PaymentHashes == {"h1", "h2", "h3", "h4", "h5"}

\* K: the distinct verification key hashes among the inputs' payment parts
DistinctSigners(inps) ==
    {h \in PaymentHashes :
        \E k \in 1..Len(inps) :
            /\ inps[k].output.address[1].payment_kind = "VerificationKeyHash"
            /\ inps[k].output.address[1].payment_part = h}

\* C10: the placeholder transaction of N inputs carrying K distinct payment
\* key hashes has exactly K placeholder witnesses.
C10_WitnessDedup ==
    ret.kind = "Transaction" =>
        /\ Len(ret.transaction_body.inputs) = Len(inputs)
        /\ Cardinality(DistinctSigners(inputs)) <= Len(inputs)
        /\ Len(ret.transaction_witness_set.vkey_witnesses)
              = Cardinality(DistinctSigners(inputs))

\* a placeholder transaction of two inputs at two addresses with one key hash
C10_Witness ==
    /\ ret.kind = "Transaction"
    /\ Len(inputs) = 2
    /\ inputs[1].output.address # inputs[2].output.address
    /\ Cardinality(DistinctSigners(inputs)) = 1
    /\ Len(ret.transaction_witness_set.vkey_witnesses) = 1

\* C11: a build() without a change address appends no change output: the
\* body's outputs are the caller's outputs, and no output of a returned body
\* has an absent address.
C11_NoChangeWithoutAddress ==
    BuildReturned =>
        /\ pre[1].change_address = None => ret.outputs = Before.outputs
        /\ \A k \in 1..Len(ret.outputs) : ret.outputs[k].address # None

\* every build() of the streak was given a change address
StreakWithChange ==
    \A k \in 1..Len(streak.builds) : streak.builds[k].change_address # None

\* C12: every build(changeAddress) that returns a body appends exactly one
\* output, the change, computed with the earlier change outputs counted as
\* requested; after n such calls in a row the builder's outputs are the
\* outputs before the first of them followed by n change outputs.
C12_RepeatedBuildAppendsChange ==
    (BuildReturned /\ StreakWithChange) =>
        LET n  == Len(streak.builds)
            n0 == Len(streak.outputs0)
        IN  /\ n >= 1
            /\ outputs = Append(Before.outputs,
                           TransactionOutput(pre[1].change_address,
                              ChangeAmount(inputs, Before.outputs, fee)))
            /\ Len(outputs) = n0 + n
            /\ SubSeq(outputs, 1, n0) = streak.outputs0
            /\ \A k \in 1..n :
                  outputs[n0 + k].address = streak.builds[k].change_address

\* two builds with a change address in a row, after an output was requested
C12_Witness ==
    /\ BuildReturned
    /\ StreakWithChange
    /\ Len(streak.builds) >= 2
    /\ streak.outputs0 # <<>>
    /\ Len(outputs) = Len(streak.outputs0) + 2

\* the orders in which the elements of the sequence s can be given
Reorderings(s) ==
    { Picked(s, f) : f \in {g \in PickOrders(Len(s)) : Len(g) = Len(s)} }

\* what the selector that succeeded in the last build() returned
SelectionOfLastBuild ==
    IF attempts # <<>> /\ Last(attempts).ok THEN Last(attempts).selected ELSE <<>>

\* C13: a fresh builder given the explicit inputs of the last build() in any
\* other order, with the same input addresses, outputs, chain responses and
\* selector results, computes the same deficit, hands the selectors the same
\* pool and ends with the same input sequence, in the builder and in the body.
C13_Determinism ==
    BuildReturned =>
        \A q \in Reorderings(Before.inputs) :
            LET requested == SumOutputs(Before.outputs)
                final == SortUtxos(ExtendSelected(q, SelectionOfLastBuild))
            IN  /\ Unfulfilled(requested, TrimmedSelected(SumUtxos(q), requested))
                      = DeficitBefore
                /\ AdditionalUtxoPool(Before.input_addresses, q)
                      = AdditionalUtxoPool(Before.input_addresses, Before.inputs)
                /\ final = inputs
                /\ [k \in 1..Len(final) |-> final[k].input] = ret.inputs

\* explicit inputs given in another order than the sorted one
C13_Witness ==
    /\ BuildReturned
    /\ Len(Before.inputs) >= 2
    /\ Before.inputs # SortUtxos(Before.inputs)
    /\ Before.outputs # <<>>

\* C14: within one build() the k-th selector call is made on the k-th
\* configured selector, so each selector is called at most once and in
\* priority order, and every call but the last one made has failed: no
\* selector is called after one that succeeded.
C14_SelectorsInOrder ==
    /\ Len(attempts) <= Len(utxo_selectors)
    /\ \A k \in 1..Len(attempts) :
          /\ attempts[k].selector = utxo_selectors[k]
          /\ k < Len(attempts) => ~attempts[k].ok
    /\ \A j, k \in 1..Len(attempts) :
          attempts[j].selector = attempts[k].selector => j = k

\* the second of three selectors succeeded and build() returned a body
C14_Witness ==
    /\ BuildReturned
    /\ Len(utxo_selectors) = 3
    /\ Len(attempts) = 2
    /\ ~attempts[1].ok
    /\ attempts[2].ok

\* the quantities of the deficit the last build() computed, over all assets
DeficitQuantities ==
    UNION { { DeficitBefore.multi_asset[p][n] :
                n \in DOMAIN DeficitBefore.multi_asset[p] } :
            p \in DOMAIN DeficitBefore.multi_asset }

\* C15: when the deficit a build() computes is not the zero value, that
\* build() asks the chain context for the entries of every registered input
\* address, in order, and calls at least one selector; so it does when the
\* base-unit shortfall is zero and an asset is short, and when one requested
\* asset is short while another is in surplus.
C15_DeficitTriggersSelection ==
    (pre # None /\ pc # "select" /\ DeficitBefore # ZeroValue) =>
        /\ queries = QueriesOf(Before.input_addresses)
        /\ attempts # <<>>
        /\ attempts[1].selector = utxo_selectors[1]

\* no base-unit shortfall, one asset short and another in surplus, an input
\* address registered, and the build() is over
C15_Witness ==
    /\ pre # None
    /\ pc = "idle"
    /\ DeficitBefore.coin = 0
    /\ \E x \in DeficitQuantities : x > 0
    /\ \E x \in DeficitQuantities : x < 0
    /\ Before.input_addresses # <<>>
    /\ queries # <<>>
    /\ attempts # <<>>

\* the chain context's answers for the addresses, one after the other
RECURSIVE Responses(_)
Responses(addresses) ==
    IF addresses = <<>> THEN <<>>
    ELSE ContextUtxos(AddressStr(Head(addresses))) \o Responses(Tail(addresses))

\* the explicit inputs of the last build(), as a set
ExplicitBefore == {Before.inputs[k] : k \in 1..Len(Before.inputs)}

\* C16: every selector called in a build() is handed the same pool, the chain
\* context's answers for the registered input addresses without the entries
\* that are explicit inputs, and the same request, the deficit as one output;
\* the chain context is asked once per registered address, whatever the
\* number of selectors called.
C16_PoolAndRequest ==
    pre # None =>
        /\ \A k \in 1..Len(attempts) :
              /\ attempts[k].pool =
                    SelectSeq(Responses(Before.input_addresses),
                              LAMBDA u : u \notin ExplicitBefore)
              /\ attempts[k].request =
                    <<TransactionOutput(None, ValueAmount(DeficitBefore))>>
        /\ attempts # <<>> => queries = QueriesOf(Before.input_addresses)
        /\ Len(queries) \in {0, Len(Before.input_addresses)}

\* two selectors were called with a pool drawn from an address that also
\* holds an explicit input
C16_Witness ==
    /\ pre # None
    /\ Len(attempts) >= 2
    /\ attempts[1].pool # <<>>
    /\ Len(queries) >= 1
    /\ \E u \in ExplicitBefore :
          \E k \in 1..Len(queries) : AddressStr(u.output.address[1]) = queries[k]

\* the asset entries (policy, name) of a multi-asset map
Entries(m) == UNION { {<<p, n>> : n \in DOMAIN m[p]} : p \in DOMAIN m }

\* C17: the deficit build() computes, and hands to every selector it calls,
\* has as base unit the requested base units minus the explicit inputs' base
\* units, or zero when that is negative, and has exactly the asset entries
\* the outputs request, each with the requested quantity minus the quantity
\* the explicit inputs hold; an asset the outputs do not request is not in it.
C17_DeficitDefinition ==
    pre # None =>
        LET requested == SumOutputs(Before.outputs)
            held == SumUtxos(Before.inputs)
            IsDeficit(d) ==
                /\ d.coin = Max(0, requested.coin - held.coin)
                /\ d.coin >= 0
                /\ Entries(d.multi_asset) = Entries(requested.multi_asset)
                /\ \A e \in Entries(d.multi_asset) :
                      d.multi_asset[e[1]][e[2]] =
                          requested.multi_asset[e[1]][e[2]]
                              - Quantity(held.multi_asset, e[1], e[2])
        IN  /\ pc # "idle" => IsDeficit(unfulfilled_amount)
            /\ \A k \in 1..Len(attempts) :
                  /\ Len(attempts[k].request) = 1
                  /\ IsDeficit(attempts[k].request[1].amount)

\* a selector was handed a deficit while the explicit inputs hold an asset
\* that no output requests, and more base units than requested
C17_Witness ==
    /\ pre # None
    /\ attempts # <<>>
    /\ Entries(SumUtxos(Before.inputs).multi_asset)
          \ Entries(SumOutputs(Before.outputs).multi_asset) # {}
    /\ SumUtxos(Before.inputs).coin > SumOutputs(Before.outputs).coin
    /\ attempts[1].request[1].amount.coin = 0

\* the last call was a build() that is over, made right after another build()
\* or after builds only, the one before it having returned a body
RepeatedBuildDone ==
    /\ pre # None
    /\ pc = "idle"
    /\ \/ BuildReturned /\ Len(streak.builds) >= 2
       \/ BuildRaised /\ Len(streak.builds) >= 1

\* the build() that returned a body before the last build()
PrevBuild ==
    IF BuildReturned THEN streak.builds[Len(streak.builds) - 1]
    ELSE Last(streak.builds)

\* a build(changeAddress) that called a selector, then build(changeAddress)
SecondBuildAfterSelection ==
    /\ RepeatedBuildDone
    /\ PrevBuild.change_address # None
    /\ PrevBuild.invoked >= 1
    /\ pre[1].change_address # None

\* C18 as stated: when a build(changeAddress) needed a selection, the next
\* build(changeAddress) on the same builder queries the chain context again
\* and calls the selectors again.
C18_RepeatedBuildRequeries ==
    SecondBuildAfterSelection =>
        /\ attempts # <<>>
        /\ queries = QueriesOf(Before.input_addresses)

\* C18 amended: the next build(changeAddress) recomputes the deficit from the
\* inputs the first one committed and from the outputs with the first change
\* among them; its base-unit shortfall is then zero, and it queries the chain
\* context and calls the selectors again exactly when that deficit is not the
\* zero value, which is when some output, the first change included, carries
\* an asset; when no output carries an asset it does neither.
C18_RepeatedBuildRecomputes ==
    SecondBuildAfterSelection =>
        LET requested == SumOutputs(Before.outputs)
        IN  /\ DeficitBefore.coin = 0
            /\ (attempts # <<>>) <=> (DeficitBefore # ZeroValue)
            /\ (attempts # <<>>) <=> (Entries(requested.multi_asset) # {})
            /\ attempts # <<>> => queries = QueriesOf(Before.input_addresses)
            /\ attempts = <<>> => queries = <<>>

\* a second build(changeAddress) that called a selector again
C18_Witness ==
    /\ SecondBuildAfterSelection
    /\ attempts # <<>>
    /\ queries # <<>>

\* no reference (transaction id, index) occurs twice in the sequence of UTxOs
NoDuplicateRef(s) ==
    \A j, k \in 1..Len(s) : s[j].input = s[k].input => j = k

\* C19: after a build() that returned a body, when no explicit input was
\* added twice and the selector that succeeded returned no entry twice, every
\* explicit input is among the builder's inputs and no reference occurs
\* twice in them, in the builder and in the body; also when an input address
\* is registered twice and the pool holds its entries twice.
C19_InputsCompleteNoDuplicate ==
    (BuildReturned /\ NoDuplicateRef(Before.inputs)
                   /\ NoDuplicateRef(SelectionOfLastBuild)) =>
        /\ \A u \in ExplicitBefore : \E k \in 1..Len(inputs) : inputs[k] = u
        /\ NoDuplicateRef(inputs)
        /\ \A j, k \in 1..Len(ret.inputs) : ret.inputs[j] = ret.inputs[k] => j = k
        /\ Len(inputs) = Len(Before.inputs) + Len(SelectionOfLastBuild)

\* an explicit input, its address registered, and a selection from the pool
\* of that address added to it
C19_Witness ==
    /\ BuildReturned
    /\ NoDuplicateRef(Before.inputs)
    /\ SelectionOfLastBuild # <<>>
    /\ NoDuplicateRef(SelectionOfLastBuild)
    /\ \E u \in ExplicitBefore :
          \E k \in 1..Len(Before.input_addresses) :
             AddressStr(u.output.address[1]) = AddressStr(Before.input_addresses[k])

\* C20: the fee of the body build() returns is the maximum fee of the chain
\* context whatever fee the caller had set; build() leaves that fee in the
\* builder, and it is the fee that was subtracted to compute the change.
C20_FeeOverwritten ==
    BuildReturned =>
        /\ ret.fee = max_tx_fee
        /\ fee = ret.fee
        /\ Last(outputs).amount.coin =
              SumUtxos(inputs).coin - SumOutputs(Before.outputs).coin - ret.fee

\* the caller had set another fee before the build() that returned a body
C20_Witness ==
    /\ BuildReturned
    /\ Before.fee \in FeeChoices
    /\ Before.fee # ret.fee
    /\ Before.inputs # <<>>

====
